---------------------------- MODULE Spec2Model ----------------------------
(***************************************************************************)
(* A model of the CRM GraphQL mutations of crm/schema.py over the tables   *)
(* of crm/models.py.                                                       *)
(*                                                                         *)
(* Text values that the code converts (strip, lower, int, regex match) are *)
(* sequences of one-character strings, so that the conversions are         *)
(* computed.  Error messages are TLA+ strings, built as the code builds    *)
(* them.  An optional value is a sequence: <<>> is None, <<v>> is v.       *)
(* A Decimal is a record [c, e] standing for c * 10^(-e).                  *)
(*                                                                         *)
(* Spec, SpecProducts and SpecOrders run the mutations one call at a time, *)
(* each call as one step: Spec the two customer mutations, SpecProducts    *)
(* createProduct, SpecOrders createCustomer, createProduct and createOrder.*)
(* SpecConc runs NumReqs requests whose database statements interleave.    *)
(***************************************************************************)
EXTENDS Integers, Sequences, FiniteSets, TLC

VARIABLES
    customers,      \* table crm_customer, in insertion order
    products,       \* table crm_product, in insertion order
    orders,         \* table crm_order, in insertion order
    order_products, \* the Order.products through table: rows <<order id, product id>>
    last,           \* the response of the last mutation executed one at a time
    before,         \* history: the tables as that mutation found them
    nextId,         \* the tables' autoincrement counters (concurrent runs)
    reqs            \* the requests in flight (concurrent runs)

vars == <<customers, products, orders, order_products, last, before, nextId, reqs>>

Tables ==
    [customers |-> customers, products |-> products, orders |-> orders,
     order_products |-> order_products]

None == <<>>
Some(v) == <<v>>

-----------------------------------------------------------------------------
(* Bounds of the model.                                                    *)

MaxBatch == 2
MaxProducts == 2
MaxOrders == 1
MaxIds == 2
NumReqs == 3

-----------------------------------------------------------------------------
(* Text.                                                                   *)

Digits == {"0", "1", "2", "3", "4", "5", "6", "7", "8", "9"}
Whitespace == {" "}

\* str.lower() on one character
LowerChar(ch) ==
    CASE ch = "A" -> "a"
      [] ch = "B" -> "b"
      [] OTHER -> ch

\* str.lower()
Lower(s) == [i \in 1..Len(s) |-> LowerChar(s[i])]

RECURSIVE LStrip(_)
LStrip(s) == IF s # <<>> /\ Head(s) \in Whitespace THEN LStrip(Tail(s)) ELSE s

RECURSIVE RStrip(_)
RStrip(s) ==
    IF s # <<>> /\ s[Len(s)] \in Whitespace
    THEN RStrip(SubSeq(s, 1, Len(s) - 1))
    ELSE s

\* str.strip()
Strip(s) == RStrip(LStrip(s))

RECURSIVE Text(_)
\* the characters of s as one string (for the messages that quote an input)
Text(s) == IF s = <<>> THEN "" ELSE Head(s) \o Text(Tail(s))

RECURSIVE Join(_, _)
\* sep.join(parts)
Join(parts, sep) ==
    IF parts = <<>> THEN ""
    ELSE IF Len(parts) = 1 THEN parts[1]
    ELSE parts[1] \o sep \o Join(Tail(parts), sep)

AllDigits(s) == \A i \in 1..Len(s) : s[i] \in Digits

\* PHONE_REGEX.match(phone): ^(?:\+\d{7,15}|\d{3}-\d{3}-\d{4})$
\* (on texts without a line break, where $ is the end of the text)
PHONE_REGEX(phone) ==
    \/ /\ Len(phone) \in 8..16
       /\ phone[1] = "+"
       /\ AllDigits(Tail(phone))
    \/ /\ Len(phone) = 12
       /\ phone[4] = "-"
       /\ phone[8] = "-"
       /\ AllDigits(SubSeq(phone, 1, 3))
       /\ AllDigits(SubSeq(phone, 5, 7))
       /\ AllDigits(SubSeq(phone, 9, 12))

\* _validate_phone(phone): the messages of the ValidationError it raises, if any.
\* phone is optional; None and "" are falsy and pass.
_validate_phone(phone) ==
    IF phone # None /\ phone[1] # <<>> /\ ~PHONE_REGEX(phone[1])
    THEN <<"Phone number must be +<digits> or 123-456-7890 format.">>
    ELSE <<>>

-----------------------------------------------------------------------------
(* Customers.                                                              *)

\* Customer.objects.filter(email__iexact=email).exists()
EmailExists(tbl, email) ==
    \E i \in 1..Len(tbl) : Lower(tbl[i].email) = Lower(email)

\* Customer.email without unique=True
NoUniqueIndex(tbl, email) == FALSE

\* the unique index on Customer.email: would inserting `email` violate it?
UniqueViolation(tbl, email) ==
    \E i \in 1..Len(tbl) : tbl[i].email = email

\* The validation of CreateCustomer.mutate: the error list.
CreateCustomerErrors(tbl, input) ==
    (IF Strip(input.name) = <<>> THEN <<"Name is required.">> ELSE <<>>)
    \o _validate_phone(input.phone)
    \o (IF EmailExists(tbl, Lower(Strip(input.email)))
        THEN <<"Email already exists.">> ELSE <<>>)

\* The Customer that CreateCustomer.mutate builds, before save() gives it an id.
CreateCustomerRow(input) ==
    [name |-> Strip(input.name),
     email |-> Lower(Strip(input.email)),
     phone |-> Strip(IF input.phone = None THEN <<>> ELSE input.phone[1])]

WithId(row, id) == [id |-> id, name |-> row.name, email |-> row.email, phone |-> row.phone]

Response(op, input, result, errors, raised) ==
    [op |-> op, input |-> input, result |-> result, errors |-> errors, raised |-> raised]

\* customer.save() and the return of CreateCustomer.mutate
CreateCustomerSave(input, row) ==
    IF UniqueViolation(customers, row.email)
    THEN /\ last' = Response("createCustomer", input, None, <<>>, "IntegrityError")
         /\ UNCHANGED <<customers, nextId>>
    ELSE /\ customers' = Append(customers, row)
         /\ nextId' = [nextId EXCEPT !.customer = @ + 1]
         /\ last' = Response("createCustomer", input, Some(row), <<>>, "")

\* createCustomer, executed alone.
CreateCustomer(input) ==
    /\ \E errors \in {CreateCustomerErrors(customers, input)} :
          IF errors # <<>>
          THEN /\ last' = Response("createCustomer", input, None, errors, "")
               /\ UNCHANGED <<customers, nextId>>
          ELSE CreateCustomerSave(input, WithId(CreateCustomerRow(input), nextId.customer))
    /\ before' = Tables
    /\ UNCHANGED <<products, orders, order_products, reqs>>

\* existing_emails of BulkCreateCustomers.mutate
ExistingEmails(tbl) ==
    {Lower(tbl[i].email) : i \in {j \in 1..Len(tbl) : tbl[j].email # <<>>}}

\* BulkRow without .lower() on the email
BulkRowNoLower(payload) ==
    [name |-> Strip(payload.name),
     email |-> Strip(payload.email),
     phone |-> IF payload.phone # None /\ payload.phone[1] # <<>>
               THEN Strip(payload.phone[1]) ELSE <<>>]

\* The row that the loop of BulkCreateCustomers.mutate builds from a payload.
BulkRow(payload) ==
    [name |-> Strip(payload.name),
     email |-> Lower(Strip(payload.email)),
     phone |-> IF payload.phone # None /\ payload.phone[1] # <<>>
               THEN Strip(payload.phone[1]) ELSE <<>>]

\* row_errors of one row, given the emails accepted so far
BulkRowErrors(row, existing_emails, seen_emails) ==
    (IF row.name = <<>> THEN <<"Name is required.">> ELSE <<>>)
    \o (IF row.email = <<>> THEN <<"Email is required.">>
        ELSE IF row.email \in existing_emails THEN <<"Email already exists.">>
        ELSE IF row.email \in seen_emails THEN <<"Duplicate email within request.">>
        ELSE <<>>)
    \o _validate_phone(Some(row.phone))

EntryError(k, row_errors) == "Entry " \o ToString(k) \o ": " \o Join(row_errors, "; ")

\* BulkAccumulate without seen_emails.add(email)
BulkAccumulateNoSeen(st, k, row, row_errors) ==
    IF row_errors # <<>>
    THEN [st EXCEPT !.errors = Append(@, EntryError(k, row_errors))]
    ELSE [st EXCEPT !.pending = Append(@, row)]

\* BulkAccumulate without the continue after a row's errors are recorded
BulkAccumulateNoContinue(st, k, row, row_errors) ==
    IF row_errors # <<>>
    THEN [st EXCEPT !.errors = Append(@, EntryError(k, row_errors)),
                    !.pending = Append(@, row)]
    ELSE [st EXCEPT !.seen_emails = @ \cup {row.email}, !.pending = Append(@, row)]

\* The body of the for loop of BulkCreateCustomers.mutate for payload k (1-based),
\* whose row_errors are given: st holds seen_emails, pending and errors.
BulkAccumulate(st, k, row, row_errors) ==
    IF row_errors # <<>>
    THEN [st EXCEPT !.errors = Append(@, EntryError(k, row_errors))]
    ELSE [st EXCEPT !.seen_emails = @ \cup {row.email}, !.pending = Append(@, row)]

\* One pass of the for loop of BulkCreateCustomers.mutate.
BulkStep(st, k, row, existing_emails) ==
    BulkAccumulate(st, k, row, BulkRowErrors(row, existing_emails, st.seen_emails))

RECURSIVE BulkLoop(_, _, _)
\* The for loop of BulkCreateCustomers.mutate over the first k payloads.
BulkLoop(input, k, existing_emails) ==
    IF k = 0 THEN [seen_emails |-> {}, pending |-> <<>>, errors |-> <<>>]
    ELSE BulkStep(BulkLoop(input, k - 1, existing_emails), k, BulkRow(input[k]),
                  existing_emails)

\* pending and errors of BulkCreateCustomers.mutate
BulkValidate(tbl, input) == BulkLoop(input, Len(input), ExistingEmails(tbl))

\* the rows of `pending` with the ids the insert gives them
BulkIds(pending, first) == [i \in 1..Len(pending) |-> WithId(pending[i], first + i - 1)]

\* would bulk_create(pending) violate the unique index on email?
BulkUniqueViolation(tbl, pending) ==
    \/ \E i \in 1..Len(pending) : UniqueViolation(tbl, pending[i].email)
    \/ \E i, j \in 1..Len(pending) : i # j /\ pending[i].email = pending[j].email

\* transaction.atomic(): bulk_create(pending), and the return of the mutation
BulkCreate(input, pending, errors) ==
    IF pending # <<>> /\ BulkUniqueViolation(customers, pending)
    THEN /\ last' = Response("bulkCreateCustomers", input, <<>>, <<>>, "IntegrityError")
         /\ UNCHANGED <<customers, nextId>>
    ELSE /\ customers' = customers \o BulkIds(pending, nextId.customer)
         /\ nextId' = [nextId EXCEPT !.customer = @ + Len(pending)]
         /\ last' = Response("bulkCreateCustomers", input,
                             BulkIds(pending, nextId.customer), errors, "")

\* bulkCreateCustomers, executed alone.
BulkCreateCustomers(input) ==
    /\ IF input = <<>>
       THEN /\ last' = Response("bulkCreateCustomers", input, <<>>, <<>>,
                                "Input list cannot be empty.")
            /\ UNCHANGED <<customers, nextId>>
       ELSE \E v \in {BulkValidate(customers, input)} :
                BulkCreate(input, v.pending, v.errors)
    /\ before' = Tables
    /\ UNCHANGED <<products, orders, order_products, reqs>>

-----------------------------------------------------------------------------
(* Decimals: [c, e] is c * 10^(-e).                                        *)

RECURSIVE Pow10(_)
Pow10(n) == IF n = 0 THEN 1 ELSE 10 * Pow10(n - 1)

Abs(n) == IF n < 0 THEN -n ELSE n
Max(a, b) == IF a >= b THEN a ELSE b

\* Decimal.quantize(Decimal('0.01'), rounding=ROUND_HALF_UP): half away from zero
Quantize(d) ==
    IF d.e <= 2 THEN [c |-> d.c * Pow10(2 - d.e), e |-> 2]
    ELSE [c |-> (IF d.c < 0 THEN -1 ELSE 1)
                * ((Abs(d.c) \div Pow10(d.e - 2))
                   + (IF 2 * (Abs(d.c) % Pow10(d.e - 2)) >= Pow10(d.e - 2) THEN 1 ELSE 0)),
          e |-> 2]

\* Decimal.__add__: exact, with the larger number of fractional digits
DecAdd(a, b) ==
    [c |-> a.c * Pow10(Max(a.e, b.e) - a.e) + b.c * Pow10(Max(a.e, b.e) - b.e),
     e |-> Max(a.e, b.e)]

-----------------------------------------------------------------------------
(* Products.                                                               *)

\* The validation of CreateProduct.mutate: the error list.
CreateProductErrors(input) ==
    (IF input.price.c <= 0 THEN <<"Price must be positive.">> ELSE <<>>)
    \o (IF (IF input.stock = None THEN 0 ELSE input.stock[1]) < 0
        THEN <<"Stock cannot be negative.">> ELSE <<>>)

\* The row that Product.objects.create() inserts.
CreateProductRow(input, id) ==
    [id |-> id,
     name |-> Strip(input.name),
     price |-> Quantize(input.price),
     stock |-> IF input.stock = None THEN 0 ELSE input.stock[1]]

\* createProduct creating the row before it returns the validation errors
CreateProductWriteFirst(input) ==
    /\ Len(products) < MaxProducts
    /\ products' = Append(products, CreateProductRow(input, nextId.product))
    /\ nextId' = [nextId EXCEPT !.product = @ + 1]
    /\ \E errors \in {CreateProductErrors(input)} :
          last' = Response("createProduct", input,
                           IF errors # <<>> THEN None
                           ELSE Some(CreateProductRow(input, nextId.product)),
                           errors, "")
    /\ before' = Tables
    /\ UNCHANGED <<customers, orders, order_products, reqs>>

\* createProduct, executed alone.
CreateProduct(input) ==
    /\ Len(products) < MaxProducts
    /\ \E errors \in {CreateProductErrors(input)} :
          IF errors # <<>>
          THEN /\ last' = Response("createProduct", input, None, errors, "")
               /\ UNCHANGED <<products, nextId>>
          ELSE /\ products' = Append(products, CreateProductRow(input, nextId.product))
               /\ nextId' = [nextId EXCEPT !.product = @ + 1]
               /\ last' = Response("createProduct", input,
                                   Some(CreateProductRow(input, nextId.product)), <<>>, "")
    /\ before' = Tables
    /\ UNCHANGED <<customers, orders, order_products, reqs>>

-----------------------------------------------------------------------------
(* Orders.                                                                 *)

DigitValue(ch) == CHOOSE d \in 0..9 : ToString(d) = ch

RECURSIVE DigitsValue(_)
DigitsValue(s) ==
    IF s = <<>> THEN 0 ELSE 10 * DigitsValue(SubSeq(s, 1, Len(s) - 1)) + DigitValue(s[Len(s)])

\* int(text) on the stripped text t: None stands for ValueError
IntOfStripped(t) ==
    IF t # <<>> /\ t[1] \in {"+", "-"}
    THEN IF Len(t) > 1 /\ AllDigits(Tail(t))
         THEN Some((IF t[1] = "-" THEN -1 ELSE 1) * DigitsValue(Tail(t)))
         ELSE None
    ELSE IF t # <<>> /\ AllDigits(t) THEN Some(DigitsValue(t)) ELSE None

\* int(raw_id)
IntParse(raw_id) == IntOfStripped(Strip(raw_id))

RECURSIVE ParsedIds(_)
\* product_ids after the parsing loop: the ids that parse, in input order
ParsedIds(raw_ids) ==
    IF raw_ids = <<>> THEN <<>>
    ELSE IntParse(Head(raw_ids)) \o ParsedIds(Tail(raw_ids))

RECURSIVE ParseErrors(_)
\* the errors of the parsing loop: one per raw id that does not parse
ParseErrors(raw_ids) ==
    IF raw_ids = <<>> THEN <<>>
    ELSE (IF IntParse(Head(raw_ids)) = None
          THEN <<"Invalid product ID: " \o Text(Head(raw_ids))>> ELSE <<>>)
         \o ParseErrors(Tail(raw_ids))

RECURSIVE Dedupe(_)
\* list(dict.fromkeys(ids)): first occurrences, in order
Dedupe(ids) ==
    IF ids = <<>> THEN <<>>
    ELSE LET front == Dedupe(SubSeq(ids, 1, Len(ids) - 1))
         IN  IF \E i \in 1..(Len(ids) - 1) : ids[i] = ids[Len(ids)]
             THEN front ELSE Append(front, ids[Len(ids)])

\* Product.objects.all(), where the filter is meant
ResolveProductsAll(tbl, product_ids) == IF product_ids = <<>> THEN <<>> ELSE tbl

\* list(Product.objects.filter(id__in=product_ids)) if product_ids else []
ResolveProducts(tbl, product_ids) ==
    SelectSeq(tbl, LAMBDA row : \E i \in 1..Len(product_ids) : product_ids[i] = row.id)

RECURSIVE SortedSeq(_)
\* sorted(S)
SortedSeq(S) ==
    IF S = {} THEN <<>>
    ELSE LET least == CHOOSE x \in S : \A y \in S : x <= y
         IN  <<least>> \o SortedSeq(S \ {least})

\* missing_product_ids
MissingProductIds(product_ids, found) ==
    SortedSeq({product_ids[i] : i \in 1..Len(product_ids)}
              \ {found[i].id : i \in 1..Len(found)})

\* Customer.objects.get(pk=customer_id): None stands for DoesNotExist
GetCustomer(tbl, customer_id) ==
    IF \E i \in 1..Len(tbl) : tbl[i].id = customer_id
    THEN Some(CHOOSE row \in {tbl[i] : i \in 1..Len(tbl)} : row.id = customer_id)
    ELSE None

\* The error list of CreateOrder.mutate, returning at the first failing check
CreateOrderErrorsShortCircuit(customer_id, raw_ids, product_ids, customer, missing) ==
    IF customer_id = None THEN <<"Invalid customer ID.">>
    ELSE IF ParseErrors(raw_ids) # <<>> THEN ParseErrors(raw_ids)
    ELSE IF product_ids = <<>> THEN <<"At least one product must be provided.">>
    ELSE IF customer = None THEN <<"Customer not found.">>
    ELSE IF missing # <<>>
    THEN <<"Invalid product ID(s): "
           \o Join([i \in 1..Len(missing) |-> ToString(missing[i])], ", ")>>
    ELSE <<>>

\* The error list of CreateOrder.mutate, from what its checks found.
CreateOrderErrors(customer_id, raw_ids, product_ids, customer, missing) ==
    (IF customer_id = None THEN <<"Invalid customer ID.">> ELSE <<>>)
    \o ParseErrors(raw_ids)
    \o (IF product_ids = <<>> THEN <<"At least one product must be provided.">> ELSE <<>>)
    \o (IF customer_id # None /\ customer = None THEN <<"Customer not found.">> ELSE <<>>)
    \o (IF missing # <<>>
        THEN <<"Invalid product ID(s): "
               \o Join([i \in 1..Len(missing) |-> ToString(missing[i])], ", ")>>
        ELSE <<>>)

RECURSIVE SumPrices(_)
\* sum((product.price for product in products), Decimal('0'))
SumPrices(found) ==
    IF found = <<>> THEN [c |-> 0, e |-> 0]
    ELSE DecAdd(SumPrices(SubSeq(found, 1, Len(found) - 1)), found[Len(found)].price)

\* The row that Order.objects.create(**order_kwargs) inserts.
CreateOrderRow(input, customer, found, id) ==
    [id |-> id,
     customer |-> customer.id,
     total_amount |-> Quantize(SumPrices(found)),
     order_date |-> IF input.order_date # None THEN input.order_date[1] ELSE "now"]

\* The through rows that order.products.set(products) adds for a new order: one
\* per product of `found` not yet linked to it.
SetProducts(links, order_id, found) ==
    SortedSeq({found[i].id : i \in 1..Len(found)}
              \ {links[i][2] : i \in {j \in 1..Len(links) : links[j][1] = order_id}})

LinkRows(order_id, ids) == [i \in 1..Len(ids) |-> <<order_id, ids[i]>>]

\* The end of CreateOrder.mutate, from what its checks found.
CreateOrderFinish(input, customer, found, errors) ==
    IF errors # <<>>
    THEN /\ last' = Response("createOrder", input, None, errors, "")
         /\ UNCHANGED <<orders, order_products, nextId>>
    ELSE /\ orders' = Append(orders, CreateOrderRow(input, customer[1], found, nextId.order))
         /\ order_products' =
               order_products
               \o LinkRows(nextId.order, SetProducts(order_products, nextId.order, found))
         /\ nextId' = [nextId EXCEPT !.order = @ + 1]
         /\ last' = Response("createOrder", input,
                             Some(CreateOrderRow(input, customer[1], found, nextId.order)),
                             <<>>, "")

\* The checks of CreateOrder.mutate, from the ids it parsed.
CreateOrderChecked(input, customer_id, product_ids, customer, found) ==
    CreateOrderFinish(input, customer, found,
                      CreateOrderErrors(customer_id, input.product_ids, product_ids, customer,
                                        MissingProductIds(product_ids, found)))

CreateOrderParsed(input, customer_id, product_ids) ==
    CreateOrderChecked(input, customer_id, product_ids,
                       IF customer_id = None THEN None
                       ELSE GetCustomer(customers, customer_id[1]),
                       ResolveProducts(products, product_ids))

\* createOrder, executed alone.
CreateOrder(input) ==
    /\ Len(orders) < MaxOrders
    /\ CreateOrderParsed(input, IntParse(input.customer_id),
                         Dedupe(ParsedIds(input.product_ids)))
    /\ before' = Tables
    /\ UNCHANGED <<customers, products, reqs>>

-----------------------------------------------------------------------------
(* Inputs of the customer mutations.                                       *)

ValidPhone == <<"+", "1", "2", "3", "4", "5", "6", "7">>

CustomerInputs ==
    { [name |-> <<"n">>,      email |-> <<"a">>,      phone |-> None],
      [name |-> <<" ", "n">>, email |-> <<" ", "A">>, phone |-> Some(ValidPhone)],
      [name |-> <<"n">>,      email |-> <<"b">>,      phone |-> Some(<<" ">> \o ValidPhone)],
      [name |-> <<" ">>,      email |-> <<"a">>,      phone |-> None],
      [name |-> <<"n">>,      email |-> <<" ">>,      phone |-> None],
      [name |-> <<"n">>,      email |-> <<"B">>,      phone |-> Some(<<"1", "2">>)] }

Batches == UNION {[1..n -> CustomerInputs] : n \in 0..MaxBatch}

NoResponse == Response("none", <<>>, None, <<>>, "")

Init ==
    /\ customers = <<>>
    /\ products = <<>>
    /\ orders = <<>>
    /\ order_products = <<>>
    /\ last = NoResponse
    /\ before = [customers |-> <<>>, products |-> <<>>, orders |-> <<>>,
                 order_products |-> <<>>]
    /\ nextId = [customer |-> 1, product |-> 1, order |-> 1]
    /\ reqs = <<>>

Next ==
    \/ \E input \in CustomerInputs : CreateCustomer(input)
    \/ \E input \in Batches : BulkCreateCustomers(input)

\* The customer mutations, executed one at a time.
Spec == Init /\ [][Next]_vars

ProductName == <<" ", "p">>

PriceInputs ==
    { [c |-> 0, e |-> 0], [c |-> -1, e |-> 2], [c |-> 4, e |-> 3], [c |-> 5, e |-> 3],
      [c |-> 1005, e |-> 3], [c |-> 25, e |-> 1] }

StockInputs == {None, Some(-1), Some(3)}

ProductInputs ==
    {[name |-> ProductName, price |-> p, stock |-> st] : p \in PriceInputs, st \in StockInputs}

NextProducts == \E input \in ProductInputs : CreateProduct(input)

\* createProduct, executed one call at a time.
SpecProducts == Init /\ [][NextProducts]_vars

OrderCustomerInputs ==
    { [name |-> <<"n">>, email |-> <<"a">>, phone |-> None],
      [name |-> <<" ">>, email |-> <<"a">>, phone |-> None] }

OrderProductInputs ==
    {[name |-> ProductName, price |-> p, stock |-> None] :
        p \in {[c |-> 0, e |-> 0], [c |-> 5, e |-> 3], [c |-> 1005, e |-> 3]}}

RawCustomerIds == {<<"1">>, <<"x">>}
RawProductIds == {<<"1">>, <<" ", "2">>, <<"x">>}

OrderInputs ==
    {[customer_id |-> cid, product_ids |-> pids, order_date |-> None] :
        cid \in RawCustomerIds,
        pids \in UNION {[1..n -> RawProductIds] : n \in 0..MaxIds}}
    \cup {[customer_id |-> <<"1">>, product_ids |-> <<<<"1">>>>, order_date |-> Some("date")]}

NextOrders ==
    \/ \E input \in OrderCustomerInputs : CreateCustomer(input)
    \/ \E input \in OrderProductInputs : CreateProduct(input)
    \/ \E input \in OrderInputs : CreateOrder(input)

\* createCustomer, createProduct and createOrder, executed one call at a time.
SpecOrders == Init /\ [][NextOrders]_vars

-----------------------------------------------------------------------------
(* Requests running concurrently.  Each request runs one mutation as the   *)
(* sequence of its database statements; statements of different requests   *)
(* interleave.  A statement inside transaction.atomic() writes to the      *)
(* request's uncommitted rows, which only that request sees, and COMMIT     *)
(* publishes them in one step; a statement outside one is committed by      *)
(* itself.                                                                  *)

Reqs == 1..NumReqs

EmptyTx == [customers |-> <<>>, orders |-> <<>>, order_products |-> <<>>]

IdleReq ==
    [op |-> "none", pc |-> "idle", input |-> <<>>, pending |-> <<>>, customer |-> None,
     found |-> <<>>, tx |-> EmptyTx, written |-> EmptyTx, errors |-> <<>>, raised |-> ""]

\* every write of a request is its own transaction (no transaction.atomic())
NoTransaction(op) == FALSE

\* Do the writes of a mutation run inside `with transaction.atomic():`?
InTransaction(op) == op \in {"bulkCreateCustomers", "createOrder"}

\* the emails that other requests have inserted and not yet committed
UncommittedEmails(r) ==
    UNION {{reqs[q].tx.customers[i].email : i \in 1..Len(reqs[q].tx.customers)} :
             q \in Reqs \ {r}}

\* CreateCustomer.mutate up to its return of errors: validation and the
\* existence query.
ConcCheckCustomer(r, input) ==
    /\ reqs[r].pc = "idle"
    /\ \E errors \in {CreateCustomerErrors(customers, input)} :
          reqs' = [reqs EXCEPT ![r] =
                     [@ EXCEPT !.op = "createCustomer", !.input = input, !.errors = errors,
                               !.pending = IF errors = <<>> THEN <<CreateCustomerRow(input)>>
                                           ELSE <<>>,
                               !.pc = IF errors = <<>> THEN "insert" ELSE "done"]]
    /\ UNCHANGED <<customers, products, orders, order_products, last, before, nextId>>

\* BulkCreateCustomers.mutate up to the transaction: the query for the existing
\* emails and the validation loop.
ConcValidateBulk(r, input) ==
    /\ reqs[r].pc = "idle"
    /\ IF input = <<>>
       THEN reqs' = [reqs EXCEPT ![r] =
                       [@ EXCEPT !.op = "bulkCreateCustomers", !.input = input,
                                 !.raised = "Input list cannot be empty.", !.pc = "failed"]]
       ELSE \E v \in {BulkValidate(customers, input)} :
              reqs' = [reqs EXCEPT ![r] =
                         [@ EXCEPT !.op = "bulkCreateCustomers", !.input = input,
                                   !.errors = v.errors, !.pending = v.pending,
                                   !.pc = IF v.pending = <<>> THEN "done" ELSE "insert"]]
    /\ UNCHANGED <<customers, products, orders, order_products, last, before, nextId>>

\* The INSERT of customer.save() or of bulk_create(pending).  It waits while
\* another request holds one of its emails uncommitted, and fails on the unique
\* index, which rolls the request's transaction back.
ConcInsertCustomers(r) ==
    /\ reqs[r].pc = "insert"
    /\ reqs[r].op \in {"createCustomer", "bulkCreateCustomers"}
    /\ \A i \in 1..Len(reqs[r].pending) :
          reqs[r].pending[i].email \notin UncommittedEmails(r)
    /\ \E rows \in {BulkIds(reqs[r].pending, nextId.customer)} :
          IF BulkUniqueViolation(customers, reqs[r].pending)
          THEN /\ reqs' = [reqs EXCEPT ![r] =
                             [@ EXCEPT !.raised = "IntegrityError", !.pc = "failed",
                                       !.tx = EmptyTx]]
               /\ UNCHANGED <<customers, nextId>>
          ELSE /\ nextId' = [nextId EXCEPT !.customer = @ + Len(rows)]
               /\ IF InTransaction(reqs[r].op)
                  THEN /\ reqs' = [reqs EXCEPT ![r] =
                                     [@ EXCEPT !.tx.customers = rows,
                                               !.written.customers = rows,
                                               !.pc = "commit"]]
                       /\ UNCHANGED customers
                  ELSE /\ customers' = customers \o rows
                       /\ reqs' = [reqs EXCEPT ![r] =
                                     [@ EXCEPT !.written.customers = rows,
                                               !.pc = IF reqs[r].op = "createCustomer"
                                                      THEN "done" ELSE "commit"]]
    /\ UNCHANGED <<products, orders, order_products, last, before>>

\* CreateOrder.mutate up to the transaction: parsing, the two queries, the
\* return of errors.
ConcCheckOrder(r, input) ==
    /\ reqs[r].pc = "idle"
    /\ \E customer_id \in {IntParse(input.customer_id)},
          product_ids \in {Dedupe(ParsedIds(input.product_ids))} :
        \E customer \in {IF customer_id = None THEN None
                          ELSE GetCustomer(customers, customer_id[1])},
           found \in {ResolveProducts(products, product_ids)} :
        \E errors \in {CreateOrderErrors(customer_id, input.product_ids, product_ids,
                                           customer, MissingProductIds(product_ids, found))} :
           reqs' = [reqs EXCEPT ![r] =
                      [@ EXCEPT !.op = "createOrder", !.input = input, !.errors = errors,
                                !.customer = customer, !.found = found,
                                !.pc = IF errors = <<>> THEN "create" ELSE "done"]]
    /\ UNCHANGED <<customers, products, orders, order_products, last, before, nextId>>

\* Order.objects.create(**order_kwargs)
ConcCreateOrderRow(r) ==
    /\ reqs[r].pc = "create"
    /\ \E row \in {CreateOrderRow(reqs[r].input, reqs[r].customer[1], reqs[r].found,
                                   nextId.order)} :
          /\ nextId' = [nextId EXCEPT !.order = @ + 1]
          /\ IF InTransaction(reqs[r].op)
             THEN /\ reqs' = [reqs EXCEPT ![r] =
                                [@ EXCEPT !.tx.orders = <<row>>, !.written.orders = <<row>>,
                                          !.pc = "set"]]
                  /\ UNCHANGED orders
             ELSE /\ orders' = Append(orders, row)
                  /\ reqs' = [reqs EXCEPT ![r] =
                                [@ EXCEPT !.written.orders = <<row>>, !.pc = "set"]]
    /\ UNCHANGED <<customers, products, order_products, last, before>>

\* order.products.set(products), and refresh_from_db()
ConcSetProducts(r) ==
    /\ reqs[r].pc = "set"
    /\ \E rows \in {LinkRows(reqs[r].written.orders[1].id,
                              SetProducts(order_products \o reqs[r].tx.order_products,
                                          reqs[r].written.orders[1].id, reqs[r].found))} :
          IF InTransaction(reqs[r].op)
          THEN /\ reqs' = [reqs EXCEPT ![r] =
                             [@ EXCEPT !.tx.order_products = rows,
                                       !.written.order_products = rows, !.pc = "commit"]]
               /\ UNCHANGED order_products
          ELSE /\ order_products' = order_products \o rows
               /\ reqs' = [reqs EXCEPT ![r] =
                             [@ EXCEPT !.written.order_products = rows, !.pc = "commit"]]
    /\ UNCHANGED <<customers, products, orders, last, before, nextId>>

\* The end of the `with transaction.atomic():` block: COMMIT.
ConcCommit(r) ==
    /\ reqs[r].pc = "commit"
    /\ customers' = customers \o reqs[r].tx.customers
    /\ orders' = orders \o reqs[r].tx.orders
    /\ order_products' = order_products \o reqs[r].tx.order_products
    /\ reqs' = [reqs EXCEPT ![r] = [@ EXCEPT !.tx = EmptyTx, !.pc = "done"]]
    /\ UNCHANGED <<products, last, before, nextId>>

ConcCustomerInputs ==
    { [name |-> <<"n">>,      email |-> <<"a">>,      phone |-> None],
      [name |-> <<" ", "n">>, email |-> <<" ", "A">>, phone |-> Some(ValidPhone)] }

ConcBatches ==
    { << [name |-> <<"n">>, email |-> <<"b">>, phone |-> None],
         [name |-> <<"n">>, email |-> <<"a">>, phone |-> None] >>,
      << [name |-> <<"n">>, email |-> <<"B">>, phone |-> Some(<<"1", "2">>)] >>,
      << >> }

ConcOrderInputs ==
    {[customer_id |-> <<"1">>, product_ids |-> pids, order_date |-> None] :
        pids \in {<< <<"1">>, <<" ", "2">> >>, << <<"1">>, <<"1">> >>, << <<"x">> >>}}

\* The store after createCustomer and createProduct calls: one customer and two
\* products, no order, no request yet.
InitConc ==
    /\ customers = <<[id |-> 1, name |-> <<"n">>, email |-> <<"c">>, phone |-> <<>>]>>
    /\ products = <<[id |-> 1, name |-> <<"p">>, price |-> [c |-> 1, e |-> 2], stock |-> 0],
                    [id |-> 2, name |-> <<"p">>, price |-> [c |-> 101, e |-> 2], stock |-> 0]>>
    /\ orders = <<>>
    /\ order_products = <<>>
    /\ last = NoResponse
    /\ before = [customers |-> <<>>, products |-> <<>>, orders |-> <<>>,
                 order_products |-> <<>>]
    /\ nextId = [customer |-> 2, product |-> 3, order |-> 1]
    /\ reqs = [r \in Reqs |-> IdleReq]

NextConc ==
    \E r \in Reqs :
        \/ \E input \in ConcCustomerInputs : ConcCheckCustomer(r, input)
        \/ \E input \in ConcBatches : ConcValidateBulk(r, input)
        \/ ConcInsertCustomers(r)
        \/ \E input \in ConcOrderInputs : ConcCheckOrder(r, input)
        \/ ConcCreateOrderRow(r)
        \/ ConcSetProducts(r)
        \/ ConcCommit(r)

\* The mutations of NumReqs requests, interleaved statement by statement.
SpecConc == InitConc /\ [][NextConc]_vars

-----------------------------------------------------------------------------
(* Properties of the customer mutations.                                   *)

Range(f) == {f[i] : i \in DOMAIN f}

\* the m-th smallest element of a set of numbers
Nth(S, m) == CHOOSE k \in S : Cardinality({j \in S : j < k}) = m - 1

NormEmail(payload) == Lower(Strip(payload.email))

StoredEmails(tbl) == {Lower(tbl[i].email) : i \in 1..Len(tbl)}

PhoneText(payload) == IF payload.phone = None THEN <<>> ELSE Strip(payload.phone[1])

\* A payload is well-formed for a store: name and email are not blank, the phone
\* (trimmed) is empty or has one of the two formats, the email is not stored.
RowWellFormed(tbl, payload) ==
    /\ Strip(payload.name) # <<>>
    /\ NormEmail(payload) # <<>>
    /\ NormEmail(payload) \notin StoredEmails(tbl)
    /\ PhoneText(payload) = <<>> \/ PHONE_REGEX(PhoneText(payload))

\* Row k of a batch passes validation: it is well-formed and no earlier well-formed
\* row of the batch has its email.
RowPasses(tbl, input, k) ==
    /\ RowWellFormed(tbl, input[k])
    /\ \A j \in 1..(k - 1) :
          ~(RowWellFormed(tbl, input[j]) /\ NormEmail(input[j]) = NormEmail(input[k]))

Passing(tbl, input) == {k \in 1..Len(input) : RowPasses(tbl, input, k)}
Failing(tbl, input) == {k \in 1..Len(input) : ~RowPasses(tbl, input, k)}

PhoneMessage == "Phone number must be +<digits> or 123-456-7890 format."

\* the message lists a failing row can get
RowMessageLists ==
    {a \o b \o c :
        a \in {<<>>, <<"Name is required.">>},
        b \in {<<>>, <<"Email is required.">>, <<"Email already exists.">>,
                <<"Duplicate email within request.">>},
        c \in {<<>>, <<PhoneMessage>>}} \ {<<>>}

\* the error entries labelled with position k, and those among them that carry msg
EntryLabelled ==
    [k \in 1..MaxBatch |->
        {"Entry " \o ToString(k) \o ": " \o Join(m, "; ") : m \in RowMessageLists}]
EntryFlagged ==
    [k \in 1..MaxBatch |->
        [msg \in {"Email already exists.", "Duplicate email within request."} |->
            {"Entry " \o ToString(k) \o ": " \o Join(m, "; ") :
                m \in {x \in RowMessageLists : msg \in Range(x)}}]]

Flagged(k, msg) == \E m \in 1..Len(last.errors) : last.errors[m] \in EntryFlagged[k][msg]

\* the customers the last mutation added
Added == SubSeq(customers, Len(before.customers) + 1, Len(customers))

OnlyAppended ==
    /\ Len(customers) >= Len(before.customers)
    /\ SubSeq(customers, 1, Len(before.customers)) = before.customers

\* C1: after any sequence of createCustomer and bulkCreateCustomers calls executed
\* one at a time, no two stored customers have emails equal case-insensitively; and
\* a createCustomer whose email (trimmed) matches a stored one up to letter case
\* returns "Email already exists." and adds no customer.
C1_EmailsUniqueCaseInsensitive ==
    /\ \A i, j \in 1..Len(customers) :
          i # j => Lower(customers[i].email) # Lower(customers[j].email)
    /\ (/\ last.op = "createCustomer"
        /\ NormEmail(last.input) \in StoredEmails(before.customers))
       => /\ "Email already exists." \in Range(last.errors)
          /\ last.result = None
          /\ customers = before.customers

\* a createCustomer rejected for an email stored in another letter case
C1_Witness ==
    /\ last.op = "createCustomer"
    /\ last.input.email = <<" ", "A">>
    /\ \E i \in 1..Len(customers) : customers[i].email = <<"a">>
    /\ "Email already exists." \in Range(last.errors)
    /\ Len(customers) >= 2

\* C5: a non-empty batch inserts exactly the rows that pass validation, in input
\* order, and returns one error entry per failing row, labelled with the row's
\* 1-based position; an empty batch raises "Input list cannot be empty." and
\* inserts nothing.
C5_BulkInsertsExactlyValidRows ==
    last.op = "bulkCreateCustomers" =>
        IF last.input = <<>>
        THEN /\ last.raised = "Input list cannot be empty."
             /\ customers = before.customers
        ELSE LET pass == Passing(before.customers, last.input)
                 fail == Failing(before.customers, last.input)
             IN  /\ last.raised = ""
                 /\ OnlyAppended
                 /\ Len(Added) = Cardinality(pass)
                 /\ last.result = Added
                 /\ \A m \in 1..Len(Added) :
                       LET payload == last.input[Nth(pass, m)]
                       IN  /\ Added[m].name = Strip(payload.name)
                           /\ Added[m].email = NormEmail(payload)
                           /\ Added[m].phone = PhoneText(payload)
                 /\ Len(last.errors) = Cardinality(fail)
                 /\ \A m \in 1..Len(last.errors) :
                       last.errors[m] \in EntryLabelled[Nth(fail, m)]

\* a batch whose first row fails and whose second row is inserted
C5_Witness ==
    /\ last.op = "bulkCreateCustomers"
    /\ Len(last.input) = 2
    /\ ~RowPasses(before.customers, last.input, 1)
    /\ RowPasses(before.customers, last.input, 2)
    /\ Len(Added) = 1
    /\ Len(last.errors) = 1

\* the number of customers the last mutation added with a given email
AddedWith(email) == Cardinality({m \in 1..Len(Added) : Added[m].email = email})

\* C8 as stated: a row whose email is not stored but equals the email of an
\* earlier row of the batch is flagged "Duplicate email within request." and not
\* "Email already exists."; a row whose email is stored is flagged "Email already
\* exists."; at most one row per email is inserted.
C8_AsStated ==
    (last.op = "bulkCreateCustomers" /\ last.input # <<>>) =>
        \A k \in 1..Len(last.input) :
            LET email == NormEmail(last.input[k])
            IN  /\ (/\ email \notin StoredEmails(before.customers)
                    /\ \E j \in 1..(k - 1) : NormEmail(last.input[j]) = email)
                   => /\ Flagged(k, "Duplicate email within request.")
                      /\ ~Flagged(k, "Email already exists.")
                      /\ AddedWith(email) <= 1
                /\ email \in StoredEmails(before.customers)
                   => /\ Flagged(k, "Email already exists.")
                      /\ AddedWith(email) = 0

\* C8, amended: a row whose non-blank email is not stored but equals the email of
\* an earlier row of the batch that passed validation is flagged "Duplicate email
\* within request.", not "Email already exists.", and is not inserted (the earlier
\* row is the only one inserted with that email); a row whose non-blank email is
\* stored is flagged "Email already exists." and not inserted.
C8_DuplicateOfAcceptedRowFlagged ==
    (last.op = "bulkCreateCustomers" /\ last.input # <<>>) =>
        \A k \in 1..Len(last.input) :
            LET email == NormEmail(last.input[k])
            IN  /\ (/\ email # <<>>
                    /\ email \notin StoredEmails(before.customers)
                    /\ \E j \in 1..(k - 1) :
                          /\ RowPasses(before.customers, last.input, j)
                          /\ NormEmail(last.input[j]) = email)
                   => /\ Flagged(k, "Duplicate email within request.")
                      /\ ~Flagged(k, "Email already exists.")
                      /\ AddedWith(email) = 1
                /\ (email # <<>> /\ email \in StoredEmails(before.customers))
                   => /\ Flagged(k, "Email already exists.")
                      /\ ~Flagged(k, "Duplicate email within request.")
                      /\ AddedWith(email) = 0

\* a batch whose second row repeats the email of its accepted first row
C8_Witness ==
    /\ last.op = "bulkCreateCustomers"
    /\ Len(last.input) = 2
    /\ RowPasses(before.customers, last.input, 1)
    /\ NormEmail(last.input[2]) = NormEmail(last.input[1])
    /\ Flagged(2, "Duplicate email within request.")
    /\ Len(Added) = 1

\* does createCustomer persist the row, and what
CreateCustomerAccepts(tbl, input) ==
    /\ CreateCustomerErrors(tbl, input) = <<>>
    /\ ~UniqueViolation(tbl, CreateCustomerRow(input).email)

\* does a one-row bulkCreateCustomers insert the row
BulkAccepts(tbl, input) ==
    /\ BulkValidate(tbl, <<input>>).pending # <<>>
    /\ ~BulkUniqueViolation(tbl, BulkValidate(tbl, <<input>>).pending)

\* C10 as stated: createCustomer and a one-row bulkCreateCustomers apply the same
\* acceptance rule: whenever one of them has run on a row, it persisted the row if
\* and only if the other, run on the same store and row, would have, and when both
\* accept they store the same name, email and phone.
C10_SameAcceptanceRule ==
    /\ last.op = "createCustomer" =>
          /\ (last.result # None) <=> BulkAccepts(before.customers, last.input)
          /\ (last.result # None /\ BulkAccepts(before.customers, last.input))
             => Added = BulkIds(BulkValidate(before.customers, <<last.input>>).pending,
                                Len(before.customers) + 1)
    /\ (last.op = "bulkCreateCustomers" /\ Len(last.input) = 1) =>
          /\ (Added # <<>>) <=> CreateCustomerAccepts(before.customers, last.input[1])
          /\ (Added # <<>> /\ CreateCustomerAccepts(before.customers, last.input[1]))
             => Added = <<WithId(CreateCustomerRow(last.input[1]),
                                Len(before.customers) + 1)>>

-----------------------------------------------------------------------------
(* Properties of createProduct and createOrder.                            *)

\* a Decimal with at most 3 fractional digits, in thousandths
Mills(d) == d.c * Pow10(3 - d.e)

RECURSIVE SumOver(_, _)
\* the sum of f over a finite set
SumOver(S, f) ==
    IF S = {} THEN 0
    ELSE LET x == CHOOSE y \in S : TRUE IN f[x] + SumOver(S \ {x}, f)

\* the ids that the raw product ids of an input name
NamedIds(raw_ids) ==
    {IntParse(raw_ids[i])[1] : i \in {j \in 1..Len(raw_ids) : IntParse(raw_ids[j]) # None}}

Unparseable(raw_ids) == {i \in 1..Len(raw_ids) : IntParse(raw_ids[i]) = None}

IdsOf(tbl) == {tbl[i].id : i \in 1..Len(tbl)}

\* C3: a successful createOrder links the order to exactly the distinct products
\* its productIds name, each once, and its total_amount is the sum of the prices
\* those products had when it ran, rounded half-up to 2 decimals.
C3_OrderLinksDistinctProductsOnce ==
    (last.op = "createOrder" /\ last.result # None) =>
        LET order == last.result[1]
            named == NamedIds(last.input.product_ids)
            links == {i \in 1..Len(order_products) : order_products[i][1] = order.id}
            cents == [id \in named |->
                        Mills((CHOOSE row \in Range(before.products) : row.id = id).price)]
        IN  /\ named \subseteq IdsOf(before.products)
            /\ {order_products[i][2] : i \in links} = named
            /\ Cardinality(links) = Cardinality(named)
            /\ order.total_amount.e = 2
            /\ order.total_amount.c = (SumOver(named, cents) + 5) \div 10
            /\ order \in Range(orders)

\* an order created from a list that names one product twice, in a store of two
\* products
C3_Witness ==
    /\ last.op = "createOrder"
    /\ last.result # None
    /\ Len(last.input.product_ids) > Cardinality(NamedIds(last.input.product_ids))
    /\ last.result[1].total_amount.c > 0
    /\ Len(products) = 2

\* C4: createOrder runs all of its checks: its error list has one entry for each
\* problem present (unparseable customer id, each unparseable product id, no usable
\* product id, customer not found, the sorted ids that do not resolve) and no other;
\* and when the list is not empty the order is null and no order row and no link is
\* added.
C4_AllChecksReported ==
    last.op = "createOrder" =>
        LET raw_ids == last.input.product_ids
            customer_id == IntParse(last.input.customer_id)
            named == NamedIds(raw_ids)
            missing == named \ IdsOf(before.products)
            absent == customer_id # None /\ customer_id[1] \notin IdsOf(before.customers)
            count(msg) == Cardinality({m \in 1..Len(last.errors) : last.errors[m] = msg})
            problems == (IF customer_id = None THEN 1 ELSE 0)
                        + Cardinality(Unparseable(raw_ids))
                        + (IF named = {} THEN 1 ELSE 0)
                        + (IF absent THEN 1 ELSE 0)
                        + (IF missing # {} THEN 1 ELSE 0)
        IN  /\ customer_id = None => count("Invalid customer ID.") = 1
            /\ \A i \in Unparseable(raw_ids) :
                  count("Invalid product ID: " \o Text(raw_ids[i]))
                    = Cardinality({j \in Unparseable(raw_ids) : raw_ids[j] = raw_ids[i]})
            /\ named = {} => count("At least one product must be provided.") = 1
            /\ absent => count("Customer not found.") = 1
            /\ missing # {} =>
                  count("Invalid product ID(s): "
                        \o Join([m \in 1..Cardinality(missing) |-> ToString(Nth(missing, m))],
                                ", ")) = 1
            /\ Len(last.errors) = problems
            /\ last.errors # <<>> =>
                  /\ last.result = None
                  /\ orders = before.orders
                  /\ order_products = before.order_products

\* a call naming a customer and two products that do not exist
C4_Witness ==
    /\ last.op = "createOrder"
    /\ last.errors = <<"Customer not found.", "Invalid product ID(s): 1, 2">>
    /\ orders = <<>>

\* C6: for createCustomer, createProduct and createOrder the returned entity is
\* null exactly when the error list is not empty; then the tables are unchanged;
\* otherwise exactly one row of the mutation's kind was added (an order with its
\* links) and the customer and product tables are otherwise unchanged.
C6_EntityOrErrors ==
    last.op \in {"createCustomer", "createProduct", "createOrder"} =>
        /\ last.raised = ""
        /\ (last.result = None) <=> (last.errors # <<>>)
        /\ last.errors # <<>> => Tables = before
        /\ last.errors = <<>> =>
              /\ customers = IF last.op = "createCustomer"
                             THEN Append(before.customers, last.result[1])
                             ELSE before.customers
              /\ products = IF last.op = "createProduct"
                            THEN Append(before.products, last.result[1])
                            ELSE before.products
              /\ orders = IF last.op = "createOrder"
                          THEN Append(before.orders, last.result[1])
                          ELSE before.orders
              /\ IF last.op = "createOrder"
                 THEN /\ Len(order_products) >= Len(before.order_products)
                      /\ SubSeq(order_products, 1, Len(before.order_products))
                           = before.order_products
                      /\ \A i \in (Len(before.order_products) + 1)..Len(order_products) :
                            order_products[i][1] = last.result[1].id
                 ELSE order_products = before.order_products

\* a createProduct rejected on a store that holds a customer, a product and an order
C6_Witness ==
    /\ last.op = "createProduct"
    /\ last.errors # <<>>
    /\ customers # <<>>
    /\ products # <<>>
    /\ orders # <<>>

\* C7 as stated: every stored product has a price that is strictly positive with
\* exactly 2 fractional digits and a stock of at least 0; a createProduct either
\* returns an error and stores nothing, or stores the input price rounded half-up
\* to 2 decimals, that value being greater than 0, and the stock (0 when omitted).
C7_StoredPricePositive ==
    /\ \A i \in 1..Len(products) :
          /\ products[i].price.c > 0
          /\ products[i].price.e = 2
          /\ products[i].stock >= 0
    /\ last.op = "createProduct" =>
          \/ /\ last.errors # <<>>
             /\ last.result = None
             /\ products = before.products
          \/ /\ last.errors = <<>>
             /\ products = Append(before.products, last.result[1])
             /\ last.result[1].price.e = 2
             /\ last.result[1].price.c = (Mills(last.input.price) + 5) \div 10
             /\ last.result[1].price.c > 0
             /\ last.result[1].stock
                  = (IF last.input.stock = None THEN 0 ELSE last.input.stock[1])

-----------------------------------------------------------------------------
(* Properties of concurrent requests.                                      *)

\* the rows of `rows` that are in the table (committed, visible to every reader)
Visible(tbl, rows) == {i \in 1..Len(rows) : rows[i] \in Range(tbl)}

\* C2: at every interleaving point the committed tables hold either none or all
\* of the writes of a createOrder (the order row and the links to all its resolved
\* products) and of a bulkCreateCustomers (all valid rows of the batch); none
\* remain of a request that failed, all of a request that completed.
C2_WritesAllOrNothing ==
    \A r \in Reqs :
        LET w == reqs[r].written
            all == /\ Visible(customers, w.customers) = 1..Len(w.customers)
                   /\ Visible(orders, w.orders) = 1..Len(w.orders)
                   /\ Visible(order_products, w.order_products) = 1..Len(w.order_products)
            none == /\ Visible(customers, w.customers) = {}
                    /\ Visible(orders, w.orders) = {}
                    /\ Visible(order_products, w.order_products) = {}
        IN  /\ reqs[r].op \in {"createOrder", "bulkCreateCustomers"} =>
                  /\ none \/ all
                  /\ reqs[r].pc = "failed" => none
                  /\ reqs[r].pc = "done" => all
                  /\ reqs[r].pc \in {"insert", "create", "set", "commit"} => none
            /\ (reqs[r].op = "createOrder" /\ Visible(orders, w.orders) # {}) =>
                  /\ {w.order_products[i][2] : i \in 1..Len(w.order_products)}
                       = IdsOf(reqs[r].found)
                  /\ Len(w.order_products) = Cardinality(IdsOf(reqs[r].found))
                  /\ \A i \in 1..Len(order_products) :
                        order_products[i][1] = w.orders[1].id
                          => order_products[i] \in Range(w.order_products)
            /\ (reqs[r].op = "bulkCreateCustomers" /\ Visible(customers, w.customers) # {})
                  => Len(w.customers) = Len(reqs[r].pending)

\* a createOrder that has written its order row and both links and has not yet
\* committed, while another request has committed a batch of two customers
C2_Witness ==
    \E r, q \in Reqs :
        /\ reqs[r].op = "createOrder"
        /\ reqs[r].pc = "commit"
        /\ Len(reqs[r].written.order_products) = 2
        /\ orders = <<>>
        /\ reqs[q].op = "bulkCreateCustomers"
        /\ reqs[q].pc = "done"
        /\ Len(reqs[q].written.customers) = 2

\* has request r passed the application-level check for this email?
PassedCheck(r, email) ==
    /\ reqs[r].op \in {"createCustomer", "bulkCreateCustomers"}
    /\ \E i \in 1..Len(reqs[r].pending) : reqs[r].pending[i].email = email

Finished(r) == reqs[r].pc \in {"done", "failed"}

\* the emails of the customers request r has written
WrittenEmails(r) ==
    {reqs[r].written.customers[i].email : i \in 1..Len(reqs[r].written.customers)}

\* C9: the existence check and the write are separate steps, so several requests
\* can pass the check for one email; what then keeps two customers with that email
\* out of the store is the unique index, which rejects every write but the first:
\* stored emails stay distinct, of the requests that passed the check for one email
\* at most one writes it, and a request that passed the check and finished without
\* writing failed with IntegrityError on an email that another request stored.
C9_UniqueIndexRejectsSecondWrite ==
    /\ \A i, j \in 1..Len(customers) : i # j => customers[i].email # customers[j].email
    /\ \A r \in Reqs :
          \A email \in {reqs[r].pending[i].email : i \in 1..Len(reqs[r].pending)} :
              PassedCheck(r, email) =>
                  /\ \A q \in Reqs \ {r} :
                        ~(email \in WrittenEmails(r) /\ email \in WrittenEmails(q))
                  /\ (Finished(r) /\ email \notin WrittenEmails(r)) =>
                        /\ reqs[r].pc = "failed"
                        /\ reqs[r].raised = "IntegrityError"
                        /\ reqs[r].written.customers = <<>>
                        /\ \E i \in 1..Len(reqs[r].pending), q \in Reqs \ {r} :
                              /\ reqs[r].pending[i].email \in WrittenEmails(q)
                              /\ reqs[r].pending[i].email
                                   \in {customers[j].email : j \in 1..Len(customers)}

\* two createCustomer requests for one email (in different letter case) that both
\* passed the check: one stored its customer, the other was rejected by the index
C9_Witness ==
    \E r, q \in Reqs :
        /\ r # q
        /\ reqs[r].op = "createCustomer" /\ reqs[q].op = "createCustomer"
        /\ reqs[r].input # reqs[q].input
        /\ reqs[r].errors = <<>> /\ reqs[q].errors = <<>>
        /\ reqs[r].pc = "done"
        /\ reqs[q].pc = "failed" /\ reqs[q].raised = "IntegrityError"

=============================================================================
